---------------------------- MODULE Spec2Model ----------------------------
(***************************************************************************)
(* A model of the agentic RAG chatbot: ingestion (src/src/ingestion.py),   *)
(* retrieval and citations (src/src/retrieval.py), the answer chain        *)
(* (src/src/rag_chain.py) and the selective memory (src/src/memory.py).    *)
(*                                                                         *)
(* Three specifications share the module:                                  *)
(*   SpecCite  doc_to_citation applied to documents drawn from a bounded   *)
(*             set of metadata/text combinations (a pure function);        *)
(*   SpecRag   the persisted FAISS index with the operations that build,   *)
(*             load and query it;                                          *)
(*   SpecMem   the two memory logs with extract_and_write_memory;          *)
(*   SpecConc  a forced rebuild and a load_vector_store running            *)
(*             concurrently, step by step, on the index directory.         *)
(*                                                                         *)
(* Python values that the code inspects dynamically (metadata values, JSON *)
(* fields) are records [t |-> type tag, v |-> string form], so that        *)
(* isinstance, truthiness and str() are computed as Python computes them.  *)
(***************************************************************************)
EXTENDS Integers, Sequences, FiniteSets, TLC

VARIABLES
    doc,             \* SpecCite: the document handed to doc_to_citation
    citation,        \* SpecCite: its result (NoCitation before the call)
    faiss_index,     \* SpecRag: the persisted index directory FAISS_INDEX_DIR
    rag_op,          \* SpecRag: the last operation, its inputs and its result
    USER_MEMORY,     \* SpecMem: the lines of USER_MEMORY.md
    COMPANY_MEMORY,  \* SpecMem: the lines of COMPANY_MEMORY.md
    mem_op,          \* SpecMem: the last extract call, its response and result
    index_dir,       \* SpecConc: FAISS_INDEX_DIR with its two files
    rebuild,         \* SpecConc: the caller running a forced rebuild
    reader           \* SpecConc: the caller running load_vector_store

conc_vars == <<index_dir, rebuild, reader>>

vars == <<doc, citation, faiss_index, rag_op, USER_MEMORY, COMPANY_MEMORY, mem_op,
          conc_vars>>

---------------------------------------------------------------------------
(* Python values and string helpers                                        *)

PyStr(s) == [t |-> "str", v |-> s]
\* an int, kept by its decimal form: str(7) = "7"
PyInt(s) == [t |-> "int", v |-> s]
PyNone == [t |-> "none", v |-> "None"]

\* bool(x) of a Python value: None, "" and 0 are falsy
Truthy(x) == ~(x.t = "none") /\ ~(x.t = "str" /\ x.v = "") /\ ~(x.t = "int" /\ x.v = "0")

\* a or b
PyOr(a, b) == IF Truthy(a) THEN a ELSE b

\* str(x)
str(x) == x.v

\* isinstance(x, str)
isinstance_str(x) == x.t = "str"

\* d.get(key, default)
Get(d, key, default) == IF key \in DOMAIN d THEN d[key] ELSE default

\* s.startswith(p)
startswith(s, p) == Len(s) >= Len(p) /\ SubSeq(s, 1, Len(p)) = p

\* the characters str.strip() removes
Whitespace == {" ", "\n", "\t"}

RECURSIVE lstrip(_)
lstrip(s) == IF Len(s) > 0 /\ SubSeq(s, 1, 1) \in Whitespace
             THEN lstrip(SubSeq(s, 2, Len(s))) ELSE s

RECURSIVE rstrip(_)
rstrip(s) == IF Len(s) > 0 /\ SubSeq(s, Len(s), Len(s)) \in Whitespace
             THEN rstrip(SubSeq(s, 1, Len(s) - 1)) ELSE s

\* s.strip()
strip(s) == rstrip(lstrip(s))

\* s[:n]
SliceTo(s, n) == SubSeq(s, 1, IF Len(s) < n THEN Len(s) ELSE n)

\* c * n
RECURSIVE Rep(_, _)
Rep(c, n) == IF n = 0 THEN ""
             ELSE LET h == Rep(c, n \div 2)
                  IN IF n % 2 = 0 THEN h \o h ELSE h \o h \o c

---------------------------------------------------------------------------
(* retrieval.py: citations                                                 *)

\* the snippet cut of doc_to_citation: page_content[:500], len(...) > 500
SNIPPET_LEN == 500

\* the snippet of doc_to_citation without the strip() call
SnippetNoStrip(page_content) ==
    LET snippet == SliceTo(page_content, SNIPPET_LEN)
    IN IF Len(page_content) > SNIPPET_LEN THEN snippet \o "..." ELSE snippet

Snippet(page_content) ==
    LET snippet == strip(SliceTo(page_content, SNIPPET_LEN))
    IN IF Len(page_content) > SNIPPET_LEN THEN snippet \o "..." ELSE snippet

\* the locator of doc_to_citation without the "chunk " prefixing
LocatorNoPrefix(metadata) ==
    PyOr(Get(metadata, "locator", PyNone), Get(metadata, "chunk_id", PyStr("unknown")))

Locator(metadata) ==
    LET locator == PyOr(Get(metadata, "locator", PyNone),
                        Get(metadata, "chunk_id", PyStr("unknown")))
    IN IF isinstance_str(locator) /\ ~startswith(locator.v, "chunk")
       THEN PyStr("chunk " \o locator.v)
       ELSE locator

doc_to_citation(d) ==
    [source |-> Get(d.metadata, "source", PyStr("unknown")),
     locator |-> str(Locator(d.metadata)),
     snippet |-> Snippet(d.page_content)]

---------------------------------------------------------------------------
(* SpecCite: doc_to_citation on bounded inputs                             *)

Absent == [t |-> "absent", v |-> ""]

\* a metadata dict holding exactly the keys whose value is not Absent
MetaOf(source, locator, chunk_id) ==
    LET all == [source |-> source, locator |-> locator, chunk_id |-> chunk_id]
    IN [key \in {x \in DOMAIN all : all[x] # Absent} |-> all[key]]

CiteSources == {Absent, PyStr("python.txt")}
CiteLocators == {Absent, PyStr("chunk 3"), PyStr("3"), PyStr("page 2"), PyStr(""), PyInt("7")}
CiteChunkIds == {Absent, PyStr("7"), PyStr("3"), PyInt("7")}

CiteTexts ==
    {"", "The GIL.", " padded text\n",
     Rep("a", 500), Rep("a", 501), Rep("a", 600),
     Rep("a", 499) \o " ",
     Rep("a", 499) \o " " \o Rep("b", 100),
     "\n" \o Rep("a", 599)}

CiteDocs ==
    {[metadata |-> MetaOf(s, l, c), page_content |-> txt] :
        s \in CiteSources, l \in CiteLocators, c \in CiteChunkIds, txt \in CiteTexts}

NoCitation == [source |-> PyNone, locator |-> "", snippet |-> ""]
NoDoc == [metadata |-> <<>>, page_content |-> ""]

\* the record of an operation on the index: its inputs and what it returned
RagResult(op) ==
    [op |-> op, outcome |-> "ok", had_index |-> FALSE, force |-> FALSE,
     dir |-> <<>>, fail_at |-> 0, embedded |-> 0, store |-> <<>>,
     k |-> 0, docs |-> <<>>, context |-> "", answer |-> "", citations |-> <<>>,
     llm_calls |-> 0]

RagIdle == RagResult("none")

\* the record of an extract call: the classification response, the date and
\* what the call returned or raised
MemResult(op) ==
    [op |-> op, outcome |-> "ok", date |-> "",
     response |-> [ok |-> FALSE, start |-> "", json |-> [kind |-> "error", fields |-> <<>>, items |-> <<>>]],
     written |-> <<>>]

MemIdle == MemResult("none")
NoIndex == [exists |-> FALSE, chunks |-> <<>>]

\* a file of the index directory: index.faiss or index.pkl, holding the
\* chunks of the build that wrote it
NoFile == [present |-> FALSE, chunks |-> <<>>]
FileOf(chunks) == [present |-> TRUE, chunks |-> chunks]
NoDir == [exists |-> FALSE, faiss |-> NoFile, pkl |-> NoFile]

\* a caller at position pc: the chunks it is building, the directory
\* entries its rmtree has still to remove, and what it has read
Caller(pc) == [pc |-> pc, chunks |-> <<>>, listed |-> {}, faiss |-> NoFile, pkl |-> NoFile]

ConcIdle ==
    /\ index_dir = NoDir
    /\ rebuild = Caller("idle")
    /\ reader = Caller("idle")

InitCite ==
    /\ doc \in CiteDocs
    /\ citation = NoCitation
    /\ faiss_index = NoIndex
    /\ rag_op = RagIdle
    /\ USER_MEMORY = <<>>
    /\ COMPANY_MEMORY = <<>>
    /\ mem_op = MemIdle
    /\ ConcIdle

DocToCitation ==
    /\ citation = NoCitation
    /\ citation' = doc_to_citation(doc)
    /\ UNCHANGED <<doc, faiss_index, rag_op, USER_MEMORY, COMPANY_MEMORY, mem_op, conc_vars>>

\* the caller passes the next retrieved document
NextDoc ==
    /\ citation # NoCitation
    /\ doc' \in CiteDocs
    /\ citation' = NoCitation
    /\ UNCHANGED <<faiss_index, rag_op, USER_MEMORY, COMPANY_MEMORY, mem_op, conc_vars>>

NextCite == DocToCitation \/ NextDoc

SpecCite == InitCite /\ [][NextCite]_vars

Cited == citation # NoCitation

SnippetTruncated ==
    Cited =>
        LET txt == doc.page_content
            first == SubSeq(txt, 1, 500)
        IN /\ Len(txt) > 500 =>
                  /\ citation.snippet = strip(first) \o "..."
                  /\ Len(citation.snippet) <= 503
                  /\ (strip(first) = first => Len(citation.snippet) = 503)
           /\ Len(txt) <= 500 => citation.snippet = strip(txt)

\* C9 (as claimed): longer than 500 characters gives the first 500
\* characters followed by "...", 503 in all; otherwise the text itself.
SnippetExactly503 ==
    Cited =>
        LET txt == doc.page_content
        IN /\ Len(txt) > 500 =>
                  /\ citation.snippet = SubSeq(txt, 1, 500) \o "..."
                  /\ Len(citation.snippet) = 503
           /\ Len(txt) <= 500 => citation.snippet = txt

\* a 600-character text whose 500th character is a space has been cited
SpaceAtCutCited ==
    /\ Cited
    /\ Len(doc.page_content) = 600
    /\ SubSeq(doc.page_content, 500, 500) = " "
    /\ Len(citation.snippet) = 502

---------------------------------------------------------------------------
(* ingestion.py: the persisted index                                       *)

\* The files a document directory may hold. A file's text is held as the
\* pieces RecursiveCharacterTextSplitter cuts it into (CHUNK_SIZE 1000,
\* CHUNK_OVERLAP 200), each piece non-empty and stripped.
PythonTxt == [name |-> "python.txt",
              pieces |-> <<"The GIL serializes bytecode.", "Decorators wrap functions.">>]
JavaTxt == [name |-> "java.txt", pieces |-> <<"HashMap hashes keys into buckets.">>]
Files == {PythonTxt, JavaTxt}

\* the directories: the *.txt files in the order glob() yields them
DocDirs ==
    {d \in UNION {[1..n -> Files] : n \in 0..Cardinality(Files)} :
        \A i, j \in DOMAIN d : i # j => d[i] # d[j]}

\* one Document per file, metadata["source"] = path.name
load_txt_documents(docs_dir) ==
    [i \in DOMAIN docs_dir |->
        [metadata |-> [source |-> PyStr(docs_dir[i].name)],
         pieces |-> docs_dir[i].pieces]]

\* splitter.split_documents: the pieces of every document, in document
\* order, each with a copy of its document's metadata
RECURSIVE split_documents(_)
split_documents(documents) ==
    IF documents = <<>> THEN <<>>
    ELSE LET d == Head(documents)
         IN [i \in DOMAIN d.pieces |->
                [metadata |-> d.metadata, page_content |-> d.pieces[i]]]
            \o split_documents(Tail(documents))

chunk_documents(documents) ==
    LET chunks == split_documents(documents)
        WithId(md, i) == ("chunk_id" :> PyStr(ToString(i))) @@ md
        WithLocator(md, i) ==
            IF "locator" \notin DOMAIN md
            THEN ("locator" :> PyStr("chunk " \o ToString(i))) @@ md
            ELSE md
    IN [i \in DOMAIN chunks |->
           [chunks[i] EXCEPT !.metadata = WithLocator(WithId(@, i), i)]]

\* create_vector_store saving whatever was embedded before the failure
create_vector_store_partial(disk, chunks, fail_at) ==
    IF fail_at \in DOMAIN chunks
    THEN [outcome |-> "EmbeddingServiceError",
          disk |-> [exists |-> TRUE, chunks |-> SubSeq(chunks, 1, fail_at - 1)],
          store |-> <<>>, embedded |-> fail_at - 1]
    ELSE [outcome |-> "ok", disk |-> [exists |-> TRUE, chunks |-> chunks],
          store |-> chunks, embedded |-> Len(chunks)]

\* FAISS.from_documents embeds every chunk (the embedding call fails at
\* chunk fail_at, 0 for no failure), and only then save_local writes the
\* index. disk is the index directory as the call finds it.
create_vector_store(disk, chunks, fail_at) ==
    IF fail_at \in DOMAIN chunks
    THEN [outcome |-> "EmbeddingServiceError", disk |-> disk,
          store |-> <<>>, embedded |-> fail_at - 1]
    ELSE [outcome |-> "ok", disk |-> [exists |-> TRUE, chunks |-> chunks],
          store |-> chunks, embedded |-> Len(chunks)]

\* get_or_create_vector_store adding the new chunks to the index it finds
get_or_create_vector_store_merge(disk, docs_dir, force_recreate, fail_at) ==
    LET documents == load_txt_documents(docs_dir)
        chunks == chunk_documents(documents)
    IN IF documents = <<>>
       THEN [outcome |-> "ValueError", disk |-> disk, store |-> <<>>, embedded |-> 0]
       ELSE create_vector_store(disk, disk.chunks \o chunks, fail_at)

\* get_or_create_vector_store removing the index before it looks for
\* documents
get_or_create_vector_store_rmtree_first(disk, docs_dir, force_recreate, fail_at) ==
    LET documents == load_txt_documents(docs_dir)
        chunks == chunk_documents(documents)
        removed == IF force_recreate /\ disk.exists THEN NoIndex ELSE disk
    IN IF documents = <<>>
       THEN [outcome |-> "ValueError", disk |-> removed, store |-> <<>>, embedded |-> 0]
       ELSE create_vector_store(removed, chunks, fail_at)

get_or_create_vector_store(disk, docs_dir, force_recreate, fail_at) ==
    LET documents == load_txt_documents(docs_dir)
        chunks == chunk_documents(documents)
        removed == IF force_recreate /\ disk.exists THEN NoIndex ELSE disk
    IN IF documents = <<>>
       THEN [outcome |-> "ValueError", disk |-> disk, store |-> <<>>, embedded |-> 0]
       ELSE create_vector_store(removed, chunks, fail_at)

\* load_vector_store failing on a missing index instead of building one
load_vector_store_strict(disk, default_dir, fail_at) ==
    IF ~disk.exists
    THEN [outcome |-> "MissingIndex", disk |-> disk, store |-> <<>>, embedded |-> 0]
    ELSE [outcome |-> "ok", disk |-> disk, store |-> disk.chunks, embedded |-> 0]

\* default_dir: the files of sample_docs, read on auto-indexing
load_vector_store(disk, default_dir, fail_at) ==
    IF ~disk.exists
    THEN get_or_create_vector_store(disk, default_dir, FALSE, fail_at)
    ELSE [outcome |-> "ok", disk |-> disk, store |-> disk.chunks, embedded |-> 0]

---------------------------------------------------------------------------
(* retrieval.py and rag_chain.py: the answer chain                         *)

get_retriever(disk, default_dir, fail_at) == load_vector_store(disk, default_dir, fail_at)

\* retriever.invoke(question) with search_kwargs k: at most k distinct
\* chunks of the store, in the order of the similarity search
Retrievable(store, k) ==
    {[i \in DOMAIN pos |-> store[pos[i]]] :
        pos \in {p \in UNION {[1..n -> DOMAIN store] : n \in 0..k} :
                    \A i, j \in DOMAIN p : i # j => p[i] # p[j]}}

\* sep.join(parts)
RECURSIVE Join(_, _)
Join(sep, parts) ==
    IF parts = <<>> THEN ""
    ELSE IF Len(parts) = 1 THEN parts[1]
    ELSE parts[1] \o sep \o Join(sep, Tail(parts))

\* the header and text of the i-th retrieved document (i counted from 1)
ContextPart(d, i) ==
    LET source == Get(d.metadata, "source", PyStr("unknown"))
        locator == PyOr(Get(d.metadata, "locator", PyNone),
                        Get(d.metadata, "chunk_id", PyStr(ToString(i))))
    IN "[" \o ToString(i) \o "] (Source: " \o str(source) \o ", " \o str(locator)
       \o ")\n" \o d.page_content

\* format_context_with_citations listing the citations in reverse
format_context_with_citations_reversed(docs) ==
    [context |-> Join("\n\n---\n\n", [i \in DOMAIN docs |-> ContextPart(docs[i], i)]),
     citations |-> [i \in DOMAIN docs |-> doc_to_citation(docs[Len(docs) + 1 - i])]]

format_context_with_citations(docs) ==
    [context |-> Join("\n\n---\n\n", [i \in DOMAIN docs |-> ContextPart(docs[i], i)]),
     citations |-> [i \in DOMAIN docs |-> doc_to_citation(docs[i])]]

REFUSAL == "I cannot find this in the uploaded documents."

\* what chain.invoke may do: raise, or return a response with this content
LLMReplies ==
    {[ok |-> FALSE, content |-> ""],
     [ok |-> TRUE, content |-> " According to python.txt, the GIL serializes bytecode.\n"],
     [ok |-> TRUE, content |-> REFUSAL]}

\* query_rag without the early return on an empty retrieval
query_rag_always_generate(r, k, docs, llm) ==
    LET fc == format_context_with_citations(docs)
    IN IF r.outcome # "ok"
       THEN [RagResult("query_rag") EXCEPT !.outcome = r.outcome, !.k = k,
                                           !.embedded = r.embedded]
       ELSE IF ~llm.ok
       THEN [RagResult("query_rag") EXCEPT !.outcome = "GenerationServiceError",
                !.k = k, !.embedded = r.embedded, !.store = r.store, !.docs = docs,
                !.context = fc.context, !.llm_calls = 1]
       ELSE [RagResult("query_rag") EXCEPT
                !.k = k, !.embedded = r.embedded, !.store = r.store, !.docs = docs,
                !.context = fc.context, !.answer = strip(llm.content),
                !.citations = fc.citations, !.llm_calls = 1]

\* r: what get_retriever(k) returned or raised; docs: what the retriever
\* returned for the question; llm: what the generation call does if made
query_rag(r, k, docs, llm) ==
    LET fc == format_context_with_citations(docs)
    IN IF r.outcome # "ok"
       THEN [RagResult("query_rag") EXCEPT !.outcome = r.outcome, !.k = k,
                                           !.embedded = r.embedded]
       ELSE IF docs = <<>>
       THEN [RagResult("query_rag") EXCEPT
                !.k = k, !.embedded = r.embedded, !.store = r.store,
                !.answer = REFUSAL, !.citations = <<>>]
       ELSE IF ~llm.ok
       THEN [RagResult("query_rag") EXCEPT !.outcome = "GenerationServiceError",
                !.k = k, !.embedded = r.embedded, !.store = r.store, !.docs = docs,
                !.context = fc.context, !.llm_calls = 1]
       ELSE [RagResult("query_rag") EXCEPT
                !.k = k, !.embedded = r.embedded, !.store = r.store, !.docs = docs,
                !.context = fc.context, !.answer = strip(llm.content),
                !.citations = fc.citations, !.llm_calls = 1]

---------------------------------------------------------------------------
(* SpecRag: building, loading and querying the index                       *)

\* the largest k a caller passes (run_sanity passes 2, the chat 5)
MaxK == 2

\* the chunk at which the embedding call may fail: 0 (no failure) or any
\* chunk of the directory
FailPoints(docs_dir) == 0..Len(chunk_documents(load_txt_documents(docs_dir)))

InitRag ==
    /\ faiss_index = NoIndex
    /\ rag_op = RagIdle
    /\ doc = NoDoc
    /\ citation = NoCitation
    /\ USER_MEMORY = <<>>
    /\ COMPANY_MEMORY = <<>>
    /\ mem_op = MemIdle
    /\ ConcIdle

\* get_or_create_vector_store(docs_dir, force_recreate), as index_files,
\* index_sample, the CLI and run_sanity call it (force_recreate = True)
IndexDocuments ==
    \E docs_dir \in DocDirs, force_recreate \in BOOLEAN :
      \E fail_at \in FailPoints(docs_dir) :
        LET r == get_or_create_vector_store(faiss_index, docs_dir, force_recreate, fail_at)
        IN /\ faiss_index' = r.disk
           /\ rag_op' = [RagResult("get_or_create_vector_store") EXCEPT
                            !.outcome = r.outcome, !.had_index = faiss_index.exists,
                            !.force = force_recreate, !.dir = docs_dir,
                            !.fail_at = fail_at, !.embedded = r.embedded,
                            !.store = r.store]
           /\ UNCHANGED <<doc, citation, USER_MEMORY, COMPANY_MEMORY, mem_op, conc_vars>>

\* load_vector_store(); the directory and the failure point are read only
\* when the index is missing
LoadVectorStore ==
    \E default_dir \in IF faiss_index.exists THEN {<<>>} ELSE DocDirs :
      \E fail_at \in FailPoints(default_dir) :
        LET r == load_vector_store(faiss_index, default_dir, fail_at)
        IN /\ faiss_index' = r.disk
           /\ rag_op' = [RagResult("load_vector_store") EXCEPT
                            !.outcome = r.outcome, !.had_index = faiss_index.exists,
                            !.dir = default_dir, !.fail_at = fail_at,
                            !.embedded = r.embedded, !.store = r.store]
           /\ UNCHANGED <<doc, citation, USER_MEMORY, COMPANY_MEMORY, mem_op, conc_vars>>

\* query_rag(question, k)
QueryRag ==
    \E k \in 1..MaxK, llm \in LLMReplies :
      \E default_dir \in IF faiss_index.exists THEN {<<>>} ELSE DocDirs :
        \E fail_at \in FailPoints(default_dir) :
          LET r == get_retriever(faiss_index, default_dir, fail_at)
          IN \E docs \in Retrievable(r.store, k) :
               /\ faiss_index' = r.disk
               /\ rag_op' = [query_rag(r, k, docs, llm) EXCEPT
                                !.had_index = faiss_index.exists,
                                !.dir = default_dir, !.fail_at = fail_at]
               /\ UNCHANGED <<doc, citation, USER_MEMORY, COMPANY_MEMORY, mem_op, conc_vars>>

NextRag == IndexDocuments \/ LoadVectorStore \/ QueryRag

SpecRag == InitRag /\ [][NextRag]_vars

\* the operation just completed is a query_rag whose retriever was obtained
\* (the load did not raise), so that retrieval took place
Retrieved ==
    /\ rag_op.op = "query_rag"
    /\ rag_op.outcome \notin {"ValueError", "EmbeddingServiceError", "MissingIndex"}

\* C1: when the retriever returns an empty sequence, query_rag returns
\* exactly the refusal string with an empty citation list and makes no
\* generation call.
RefusalLaw ==
    (Retrieved /\ rag_op.docs = <<>>) =>
        /\ rag_op.outcome = "ok"
        /\ rag_op.answer = "I cannot find this in the uploaded documents."
        /\ rag_op.citations = <<>>
        /\ rag_op.llm_calls = 0

\* a query over a non-empty index retrieved nothing and was refused
RefusedOnEmptyRetrieval ==
    /\ Retrieved
    /\ rag_op.store # <<>>
    /\ rag_op.docs = <<>>
    /\ rag_op.answer = REFUSAL

\* C3: a query_rag that returns citations returns one per retrieved chunk,
\* at most k, the i-th carrying the source and locator of the i-th retrieved
\* chunk, which is a chunk of the index and the one printed under header
\* [i] of the context block.
CitationIntegrity ==
    (rag_op.op = "query_rag" /\ rag_op.citations # <<>>) =>
        LET cs == rag_op.citations
            ds == rag_op.docs
            Block(i) == "[" \o ToString(i) \o "] (Source: " \o cs[i].source.v \o ", "
                        \o cs[i].locator \o ")\n" \o ds[i].page_content
        IN /\ Len(cs) = Len(ds)
           /\ Len(cs) <= rag_op.k
           /\ \A i \in DOMAIN cs :
                /\ cs[i].source = ds[i].metadata.source
                /\ cs[i].locator = ds[i].metadata.locator.v
                /\ \E j \in DOMAIN rag_op.store : rag_op.store[j] = ds[i]
                /\ \E j \in DOMAIN faiss_index.chunks : faiss_index.chunks[j] = ds[i]
           /\ rag_op.context = Join("\n\n---\n\n", [i \in DOMAIN cs |-> Block(i)])

\* an answer came back with two citations from two different files
TwoCitationsReturned ==
    /\ rag_op.op = "query_rag"
    /\ rag_op.outcome = "ok"
    /\ Len(rag_op.citations) = 2
    /\ rag_op.citations[1].source # rag_op.citations[2].source

\* the chunks of one build over directory d: every piece of every file of
\* d, in order, numbered from 1 across the whole directory
RECURSIVE PiecesOf(_)
PiecesOf(d) ==
    IF d = <<>> THEN <<>>
    ELSE [i \in DOMAIN d[1].pieces |-> <<d[1].name, d[1].pieces[i]>>] \o PiecesOf(Tail(d))

IsBuildOf(chunks, d) ==
    /\ Len(chunks) = Len(PiecesOf(d))
    /\ \A i \in DOMAIN chunks :
         /\ chunks[i].metadata.source = PyStr(PiecesOf(d)[i][1])
         /\ chunks[i].page_content = PiecesOf(d)[i][2]
         /\ chunks[i].metadata.chunk_id = PyStr(ToString(i))

\* C5: after a successful get_or_create_vector_store with force_recreate
\* over a directory, the persisted index is exactly the build of that
\* directory, with no chunk of an earlier build; and a query or load that
\* finds an index returns only chunks of that index and leaves it as it is.
RebuildReplaces ==
    /\ [](  (/\ rag_op.op = "get_or_create_vector_store"
             /\ rag_op.force
             /\ rag_op.outcome = "ok")
          => /\ faiss_index.exists
             /\ IsBuildOf(faiss_index.chunks, rag_op.dir)
             /\ \A i \in DOMAIN faiss_index.chunks :
                  \E j \in DOMAIN rag_op.dir :
                    faiss_index.chunks[i].metadata.source.v = rag_op.dir[j].name)
    /\ [][ (faiss_index.exists /\ rag_op'.op \in {"query_rag", "load_vector_store"})
           => /\ faiss_index' = faiss_index
              /\ \A i \in DOMAIN rag_op'.docs :
                   \E j \in DOMAIN faiss_index.chunks :
                     faiss_index.chunks[j] = rag_op'.docs[i] ]_vars

\* a forced rebuild over java.txt alone replaced an index that held chunks
\* of python.txt
OldDocumentReplaced ==
    /\ rag_op.op = "get_or_create_vector_store"
    /\ rag_op.force
    /\ rag_op.had_index
    /\ rag_op.outcome = "ok"
    /\ rag_op.dir = <<JavaTxt>>
    /\ Len(faiss_index.chunks) = 1

\* the embedding call failed during the operation just completed
EmbeddingFailed == rag_op.op # "none" /\ rag_op.fail_at # 0

\* C6: when the embedding call fails for a chunk the build raises to the
\* caller, and the persisted index, whenever present, is the complete build
\* of one directory: never a subset of a build's chunks.
NoPartialIndex ==
    /\ EmbeddingFailed => rag_op.outcome = "EmbeddingServiceError"
    /\ faiss_index.exists =>
         \E d \in DocDirs : d # <<>> /\ IsBuildOf(faiss_index.chunks, d)

\* the embedding call failed at the second chunk, after the first was
\* embedded, and nothing was persisted
FailedAfterFirstChunk ==
    /\ rag_op.op = "get_or_create_vector_store"
    /\ rag_op.fail_at = 2
    /\ rag_op.embedded = 1
    /\ rag_op.outcome = "EmbeddingServiceError"
    /\ ~faiss_index.exists

\* C7 (as amended): load_vector_store on a missing index never raises a
\* missing-index error but builds over the default directory: when the
\* directory holds a file and the embedding call succeeds it persists the
\* build and returns it, and otherwise the build's own error reaches the
\* caller and nothing is persisted. On an existing index it returns that
\* index, embeds no chunk and leaves the persisted index unchanged.
AutoBootstrap ==
    [][ rag_op'.op = "load_vector_store" =>
          IF faiss_index.exists
          THEN /\ rag_op'.outcome = "ok"
               /\ rag_op'.store = faiss_index.chunks
               /\ rag_op'.embedded = 0
               /\ faiss_index' = faiss_index
          ELSE /\ rag_op'.outcome # "MissingIndex"
               /\ (rag_op'.dir # <<>> /\ rag_op'.fail_at = 0) =>
                     /\ rag_op'.outcome = "ok"
                     /\ faiss_index'.exists
                     /\ IsBuildOf(faiss_index'.chunks, rag_op'.dir)
                     /\ rag_op'.store = faiss_index'.chunks
               /\ rag_op'.dir = <<>> =>
                     rag_op'.outcome = "ValueError" /\ ~faiss_index'.exists
               /\ rag_op'.fail_at # 0 =>
                     rag_op'.outcome = "EmbeddingServiceError" /\ ~faiss_index'.exists
      ]_vars

\* C7 (as claimed): load_vector_store on a missing index builds, persists
\* and returns the index whenever the embedding service works, so that the
\* first run succeeds; on an existing index it returns it unchanged.
FirstRunAlwaysSucceeds ==
    [][ rag_op'.op = "load_vector_store" =>
          IF faiss_index.exists
          THEN /\ rag_op'.outcome = "ok"
               /\ rag_op'.embedded = 0
               /\ faiss_index' = faiss_index
          ELSE rag_op'.fail_at = 0 =>
                 /\ rag_op'.outcome = "ok"
                 /\ faiss_index'.exists
                 /\ rag_op'.store = faiss_index'.chunks
      ]_vars

\* load_vector_store found no index, built one over the default directory
\* and returned it
Bootstrapped ==
    /\ rag_op.op = "load_vector_store"
    /\ ~rag_op.had_index
    /\ rag_op.outcome = "ok"
    /\ rag_op.embedded > 0
    /\ faiss_index.exists
    /\ rag_op.store = faiss_index.chunks

\* the operation just completed is a get_or_create_vector_store that raised
BuildFailed ==
    rag_op.op = "get_or_create_vector_store" /\ rag_op.outcome # "ok"

\* C12 (as amended): a get_or_create_vector_store that fails on an empty
\* directory leaves the persisted index as it was; one that fails on the
\* embedding call leaves it as it was when force_recreate is false or no
\* index existed, and with force_recreate over an existing index leaves no
\* index at all: the old one was removed before the embedding call.
FailedBuildEffect ==
    [][ BuildFailed' =>
          IF rag_op'.outcome = "ValueError"
          THEN faiss_index' = faiss_index
          ELSE /\ rag_op'.outcome = "EmbeddingServiceError"
               /\ IF rag_op'.force /\ faiss_index.exists
                  THEN ~faiss_index'.exists /\ faiss_index'.chunks = <<>>
                  ELSE faiss_index' = faiss_index
      ]_vars

\* C12 (as claimed): whenever get_or_create_vector_store fails, the
\* persisted index after the call is the persisted index before it.
FailedBuildLeavesIndex ==
    [][ BuildFailed' => faiss_index' = faiss_index ]_vars

\* a forced rebuild over an existing index failed on the embedding call and
\* left no index
ForcedBuildFailedIndexGone ==
    /\ BuildFailed
    /\ rag_op.outcome = "EmbeddingServiceError"
    /\ rag_op.force
    /\ rag_op.had_index
    /\ ~faiss_index.exists

---------------------------------------------------------------------------
(* memory.py: the selective memory                                         *)

\* JSON values as json.loads returns them; n is the number in hundredths
\* (0.7 is 70), 1 and 0 for true and false
JStr(s) == [t |-> "str", v |-> s, n |-> 0]
JNum(s, hundredths) == [t |-> "num", v |-> s, n |-> hundredths]
JBool(b) == [t |-> "bool", v |-> IF b THEN "True" ELSE "False", n |-> IF b THEN 1 ELSE 0]
JNull == [t |-> "null", v |-> "None", n |-> 0]

\* bool(x) of a JSON value
JTruthy(x) ==
    CASE x.t = "null" -> FALSE
      [] x.t = "str" -> x.v # ""
      [] OTHER -> x.n # 0

\* the threshold of the gate, conf >= 0.7, in hundredths
CONFIDENCE_MIN == 70

\* x >= 0.7 raises TypeError unless x is a number (a bool is one)
Comparable(x) == x.t \in {"num", "bool"}

\* the gate with > in place of >=
Keep_strict(item) ==
    IF /\ JTruthy(Get(item, "should_write", JNull))
       /\ JTruthy(Get(item, "target", JNull))
       /\ JTruthy(Get(item, "summary", JNull))
    THEN LET conf == Get(item, "confidence", JNum("0", 0))
         IN IF ~Comparable(conf) THEN "TypeError"
            ELSE IF conf.n > CONFIDENCE_MIN THEN "keep" ELSE "skip"
    ELSE "skip"

\* the test on one dict of the response (lines 53-55 and 61-62): "keep",
\* "skip", or "TypeError" when the comparison raises
Keep(item) ==
    IF /\ JTruthy(Get(item, "should_write", JNull))
       /\ JTruthy(Get(item, "target", JNull))
       /\ JTruthy(Get(item, "summary", JNull))
    THEN LET conf == Get(item, "confidence", JNum("0", 0))
         IN IF ~Comparable(conf) THEN "TypeError"
            ELSE IF conf.n >= CONFIDENCE_MIN THEN "keep" ELSE "skip"
    ELSE "skip"

\* the loop over the items of an array: results so far, or the TypeError
\* that leaves the function
RECURSIVE ParseItems(_, _)
ParseItems(items, results) ==
    IF items = <<>> THEN [raised |-> "", results |-> results]
    ELSE LET item == Head(items)
             verdict == IF item.kind = "dict" THEN Keep(item.fields) ELSE "skip"
         IN IF verdict = "TypeError" THEN [raised |-> "TypeError", results |-> <<>>]
            ELSE IF verdict = "keep"
            THEN ParseItems(Tail(items),
                     Append(results, [target |-> item.fields["target"],
                                      summary |-> item.fields["summary"]]))
            ELSE ParseItems(Tail(items), results)

\* text: the response text by what the function reads of it: the first
\* character after strip() and what json.loads makes of the text
\* (kind "error": JSONDecodeError)
_parse_memory_response(text) ==
    IF text.start = "{"
    THEN IF text.json.kind = "error" THEN [raised |-> "", results |-> <<>>]
         ELSE ParseItems(<<text.json>>, <<>>)
    ELSE IF text.start = "["
    THEN IF text.json.kind = "error" THEN [raised |-> "", results |-> <<>>]
         ELSE ParseItems(text.json.items, <<>>)
    ELSE [raised |-> "", results |-> <<>>]

\* the line written for a summary
Line(date, summary) == "- [" \o date \o "] " \o str(summary)

\* open(path, "w") in place of open(path, "a")
OpenWrite(log, line) == <<line>>

\* with open(path, "a") as f: f.write(line)
OpenAppend(log, line) == Append(log, line)

\* target == "USER"
IsUserTarget(target) == target.t = "str" /\ target.v = "USER"

\* the writing loop of extract_and_write_memory over the parsed items
RECURSIVE WriteItems(_, _, _, _)
WriteItems(items, date, user, company) ==
    IF items = <<>> THEN [user |-> user, company |-> company]
    ELSE LET item == Head(items)
             line == Line(date, item.summary)
         IN IF IsUserTarget(item.target)
            THEN WriteItems(Tail(items), date, OpenAppend(user, line), company)
            ELSE WriteItems(Tail(items), date, user, OpenAppend(company, line))

\* response: what chain.invoke does (ok FALSE: it raises); date: today
extract_and_write_memory(user, company, response, date) ==
    IF ~response.ok
    THEN [outcome |-> "GenerationServiceError", user |-> user, company |-> company,
          written |-> <<>>]
    ELSE LET parsed == _parse_memory_response(response)
             logs == WriteItems(parsed.results, date, user, company)
         IN IF parsed.raised # ""
            THEN [outcome |-> parsed.raised, user |-> user, company |-> company,
                  written |-> <<>>]
            ELSE [outcome |-> "ok", user |-> logs.user, company |-> logs.company,
                  written |-> parsed.results]

---------------------------------------------------------------------------
(* SpecMem: the memory logs under extract calls                            *)

\* the template state of the two files
USER_TEMPLATE ==
    <<"# USER MEMORY", "", "<!--",
      "Append only high-signal, user-specific facts worth remembering.",
      "Do NOT dump raw conversation.",
      "Avoid secrets or sensitive information.", "-->">>

COMPANY_TEMPLATE ==
    <<"# COMPANY MEMORY", "", "<!--",
      "Append reusable org-wide learnings that could help colleagues too.",
      "Do NOT dump raw conversation.",
      "Avoid secrets or sensitive information.", "-->">>

\* the most items in an array response, and the most lines a log takes
MaxItems == 2
MaxLogLines == 2

Dict(fields) == [kind |-> "dict", fields |-> fields, items |-> <<>>]
List(items) == [kind |-> "list", fields |-> <<>>, items |-> items]
Scalar == [kind |-> "scalar", fields |-> <<>>, items |-> <<>>]
DecodeError == [kind |-> "error", fields |-> <<>>, items |-> <<>>]

UserFact == JStr("User prefers weekly summaries on Mondays")
CompanyFact == JStr("Technical interviews focus on language-specific concepts")

\* the items an array response may hold: facts above, at and below the
\* threshold, a record with a null confidence and an item that is no dict
ArrayItems ==
    {Dict([should_write |-> JBool(TRUE), target |-> JStr("USER"),
           summary |-> UserFact, confidence |-> JNum("0.9", 90)]),
     Dict([should_write |-> JBool(TRUE), target |-> JStr("COMPANY"),
           summary |-> CompanyFact, confidence |-> JNum("0.7", 70)]),
     Dict([should_write |-> JBool(TRUE), target |-> JStr("USER"),
           summary |-> UserFact, confidence |-> JNum("0.69", 69)]),
     Dict([should_write |-> JBool(TRUE), target |-> JStr("USER"),
           summary |-> UserFact, confidence |-> JNull]),
     Scalar}

\* the dicts a single-object response may be
Dicts ==
    (ArrayItems \ {Scalar}) \cup
    {Dict([should_write |-> JBool(FALSE)]),
     Dict([should_write |-> JBool(FALSE), target |-> JStr("USER"),
           summary |-> UserFact, confidence |-> JNum("0.9", 90)]),
     Dict([should_write |-> JBool(TRUE),
           summary |-> UserFact, confidence |-> JNum("0.9", 90)]),
     Dict([should_write |-> JBool(TRUE), target |-> JStr("COMPANY"),
           confidence |-> JNum("0.9", 90)]),
     Dict([should_write |-> JBool(TRUE), target |-> JStr("USER"),
           summary |-> UserFact]),
     Dict([should_write |-> JBool(TRUE), target |-> JStr("COMPANY"),
           summary |-> CompanyFact, confidence |-> JStr("high")]),
     Dict([should_write |-> JBool(TRUE), target |-> JStr("TEAM"),
           summary |-> CompanyFact, confidence |-> JNum("0.9", 90)])}

\* the responses of the classification call
Responses ==
    {[ok |-> FALSE, start |-> "", json |-> DecodeError]}
    \cup {[ok |-> TRUE, start |-> "other", json |-> DecodeError]}
    \cup {[ok |-> TRUE, start |-> st, json |-> DecodeError] : st \in {"{", "["}}
    \cup {[ok |-> TRUE, start |-> "{", json |-> d] : d \in Dicts}
    \cup {[ok |-> TRUE, start |-> "[", json |-> List(items)] :
            items \in UNION {[1..n -> ArrayItems] : n \in 0..MaxItems}}

Today == "2026-11-03"

InitMem ==
    /\ USER_MEMORY = USER_TEMPLATE
    /\ COMPANY_MEMORY = COMPANY_TEMPLATE
    /\ mem_op = MemIdle
    /\ doc = NoDoc
    /\ citation = NoCitation
    /\ faiss_index = NoIndex
    /\ rag_op = RagIdle
    /\ ConcIdle

\* extract_and_write_memory(user_message, assistant_message)
ExtractAndWriteMemory ==
    \E response \in Responses :
        LET r == extract_and_write_memory(USER_MEMORY, COMPANY_MEMORY, response, Today)
        IN /\ Len(r.user) <= Len(USER_TEMPLATE) + MaxLogLines
           /\ Len(r.company) <= Len(COMPANY_TEMPLATE) + MaxLogLines
           /\ USER_MEMORY' = r.user
           /\ COMPANY_MEMORY' = r.company
           /\ mem_op' = [MemResult("extract_and_write_memory") EXCEPT
                            !.outcome = r.outcome, !.date = Today,
                            !.response = response, !.written = r.written]
           /\ UNCHANGED <<doc, citation, faiss_index, rag_op, conc_vars>>

NextMem == ExtractAndWriteMemory

SpecMem == InitMem /\ [][NextMem]_vars

\* the candidate records of a response: the object itself, or the items of
\* the array
Candidates(response) ==
    IF response.start = "{" THEN <<response.json>> ELSE response.json.items

\* a record {should_write, target, summary, confidence} whose fields, where
\* present, have the documented types
WellFormedRecord(c) ==
    /\ c.kind = "dict"
    /\ "should_write" \in DOMAIN c.fields => c.fields["should_write"].t = "bool"
    /\ "target" \in DOMAIN c.fields => c.fields["target"] \in {JStr("USER"), JStr("COMPANY")}
    /\ "summary" \in DOMAIN c.fields =>
           c.fields["summary"].t = "str" /\ c.fields["summary"].v # ""
    /\ "confidence" \in DOMAIN c.fields => c.fields["confidence"].t = "num"

\* the response is a parsed object or array of well-formed records
WellFormed(response) ==
    /\ response.ok
    /\ response.start \in {"{", "["}
    /\ response.json.kind # "error"
    /\ \A i \in DOMAIN Candidates(response) : WellFormedRecord(Candidates(response)[i])

\* the response came back from the model and is not well formed
Malformed(response) == response.ok /\ ~WellFormed(response)

\* should_write true, target and summary present, confidence >= 0.7
PassesGate(c) ==
    /\ c.kind = "dict"
    /\ {"should_write", "target", "summary", "confidence"} \subseteq DOMAIN c.fields
    /\ c.fields["should_write"] = JBool(TRUE)
    /\ c.fields["target"].t = "str" /\ c.fields["target"].v # ""
    /\ c.fields["summary"].t = "str" /\ c.fields["summary"].v # ""
    /\ c.fields["confidence"].t = "num" /\ c.fields["confidence"].n >= 70

IsPrefix(old, new) == Len(old) <= Len(new) /\ SubSeq(new, 1, Len(old)) = old

Added(old, new) == SubSeq(new, Len(old) + 1, Len(new))

Extracted == mem_op.op = "extract_and_write_memory"

\* C2: for a well-formed response (object or array), a candidate below 0.7,
\* or with should_write false, or lacking target or summary adds no line to
\* either log, and each candidate that passes adds exactly one line, to the
\* log of its target: the lines added to a log are those of the passing
\* candidates with that target, one each, in order.
ConfidenceGate ==
    [][ (Extracted' /\ WellFormed(mem_op'.response)) =>
          LET cands == Candidates(mem_op'.response)
              ToUser(c) == PassesGate(c) /\ c.fields["target"].v = "USER"
              ToCompany(c) == PassesGate(c) /\ c.fields["target"].v = "COMPANY"
              LineOf(c) == "- [" \o mem_op'.date \o "] " \o c.fields["summary"].v
              Lines(sel) == [i \in DOMAIN sel |-> LineOf(sel[i])]
          IN /\ mem_op'.outcome = "ok"
             /\ IsPrefix(USER_MEMORY, USER_MEMORY')
             /\ IsPrefix(COMPANY_MEMORY, COMPANY_MEMORY')
             /\ Added(USER_MEMORY, USER_MEMORY') = Lines(SelectSeq(cands, ToUser))
             /\ Added(COMPANY_MEMORY, COMPANY_MEMORY') = Lines(SelectSeq(cands, ToCompany))
             /\ Len(mem_op'.written) = Len(SelectSeq(cands, PassesGate))
      ]_vars

\* an array held a COMPANY fact at exactly 0.7 and a USER fact at 0.69: one
\* line went to the COMPANY log and none to the USER log
GateApplied ==
    /\ Extracted
    /\ mem_op.response.start = "["
    /\ Len(mem_op.response.json.items) = 2
    /\ mem_op.response.json.items[1].fields = [should_write |-> JBool(TRUE),
           target |-> JStr("COMPANY"), summary |-> CompanyFact,
           confidence |-> JNum("0.7", 70)]
    /\ mem_op.response.json.items[2].fields = [should_write |-> JBool(TRUE),
           target |-> JStr("USER"), summary |-> UserFact,
           confidence |-> JNum("0.69", 69)]
    /\ Len(mem_op.written) = 1
    /\ Len(COMPANY_MEMORY) = Len(COMPANY_TEMPLATE) + 1
    /\ USER_MEMORY = USER_TEMPLATE

\* C4: a response that is not a well-formed object or array of records
\* makes extract raise no error; and, unless it holds a record that passes
\* the gate, write nothing to either log and return an empty list.
MalformedSwallowed ==
    [][ (Extracted' /\ Malformed(mem_op'.response)) =>
          /\ mem_op'.outcome = "ok"
          /\ (\A i \in DOMAIN Candidates(mem_op'.response) :
                 ~PassesGate(Candidates(mem_op'.response)[i]))
             => /\ mem_op'.written = <<>>
                /\ USER_MEMORY' = USER_MEMORY
                /\ COMPANY_MEMORY' = COMPANY_MEMORY
      ]_vars

\* C10: every extract call leaves each log's earlier content as a prefix of
\* its new content, adds one line per written entry and only lines of the
\* form "- [<date>] <summary>"; the template header stays in place.
AppendOnly ==
    /\ [](/\ IsPrefix(USER_TEMPLATE, USER_MEMORY)
          /\ IsPrefix(COMPANY_TEMPLATE, COMPANY_MEMORY))
    /\ [][ /\ IsPrefix(USER_MEMORY, USER_MEMORY')
           /\ IsPrefix(COMPANY_MEMORY, COMPANY_MEMORY')
           /\ Len(USER_MEMORY') + Len(COMPANY_MEMORY')
                = Len(USER_MEMORY) + Len(COMPANY_MEMORY) + Len(mem_op'.written)
           /\ \A line \in {Added(USER_MEMORY, USER_MEMORY')[i] :
                               i \in DOMAIN Added(USER_MEMORY, USER_MEMORY')}
                          \cup {Added(COMPANY_MEMORY, COMPANY_MEMORY')[i] :
                               i \in DOMAIN Added(COMPANY_MEMORY, COMPANY_MEMORY')} :
                \E i \in DOMAIN mem_op'.written :
                    line = "- [" \o mem_op'.date \o "] " \o mem_op'.written[i].summary.v
      ]_vars

\* a second extract call appended a line the USER log already held: the log
\* keeps both
DuplicateKept ==
    /\ Extracted
    /\ Len(mem_op.written) = 1
    /\ Len(USER_MEMORY) = Len(USER_TEMPLATE) + 2
    /\ USER_MEMORY[Len(USER_MEMORY)] = USER_MEMORY[Len(USER_MEMORY) - 1]

-----------------------------------------------------------------------------
(* SpecConc: a forced rebuild and load_vector_store run by two callers at  *)
(* once.  Neither takes a lock, so every file-system call of one may fall  *)
(* between two calls of the other.  The directories hold files and the     *)
(* embedding service answers: a failure here is one of the interleaving.   *)

\* the directories get_or_create_vector_store accepts
SourceDirs == {d \in DocDirs : load_txt_documents(d) # <<>>}

\* the indexes an earlier, undisturbed build has left on disk
BuiltDirs ==
    {[exists |-> TRUE, faiss |-> FileOf(chunks), pkl |-> FileOf(chunks)] :
        chunks \in {chunk_documents(load_txt_documents(d)) : d \in SourceDirs}}

\* the entries of the index directory, as os.scandir lists them
Entries(dir) ==
    {name \in {"index.faiss", "index.pkl"} :
        IF name = "index.faiss" THEN dir.faiss.present ELSE dir.pkl.present}

\* os.unlink of one entry
Unlink(dir, name) ==
    IF name = "index.faiss" THEN [dir EXCEPT !.faiss = NoFile]
    ELSE [dir EXCEPT !.pkl = NoFile]

\* path.mkdir(exist_ok=True, parents=True)
Mkdir(dir) == [dir EXCEPT !.exists = TRUE]

InitConc ==
    /\ doc = NoDoc
    /\ citation = NoCitation
    /\ faiss_index = NoIndex
    /\ rag_op = RagIdle
    /\ USER_MEMORY = <<>>
    /\ COMPANY_MEMORY = <<>>
    /\ mem_op = MemIdle
    /\ index_dir \in {NoDir} \cup BuiltDirs
    /\ rebuild = Caller("idle")
    /\ reader = Caller("idle")

other_vars == <<doc, citation, faiss_index, rag_op, USER_MEMORY, COMPANY_MEMORY, mem_op>>

\* --- get_or_create_vector_store(docs_dir, force_recreate=True) ---

\* documents are loaded and chunked
RebuildChunk ==
    /\ rebuild.pc = "idle"
    /\ \E docs_dir \in SourceDirs :
          rebuild' = [Caller("exists") EXCEPT
                         !.chunks = chunk_documents(load_txt_documents(docs_dir))]
    /\ UNCHANGED <<index_dir, reader, other_vars>>

\* if force_recreate and FAISS_INDEX_DIR.exists():
RebuildExists ==
    /\ rebuild.pc = "exists"
    /\ rebuild' = [rebuild EXCEPT !.pc = IF index_dir.exists THEN "scandir" ELSE "embed"]
    /\ UNCHANGED <<index_dir, reader, other_vars>>

\* shutil.rmtree lists the entries of the directory,
RebuildScandir ==
    /\ rebuild.pc = "scandir"
    /\ rebuild' = [rebuild EXCEPT !.pc = "unlink", !.listed = Entries(index_dir)]
    /\ UNCHANGED <<index_dir, reader, other_vars>>

\* removes each listed entry,
RebuildUnlink ==
    /\ rebuild.pc = "unlink"
    /\ \E name \in rebuild.listed :
          /\ index_dir' = Unlink(index_dir, name)
          /\ rebuild' = [rebuild EXCEPT !.listed = @ \ {name}]
    /\ UNCHANGED <<reader, other_vars>>

\* and removes the directory, which fails on a directory that holds an
\* entry written since the listing
RebuildRmdir ==
    /\ rebuild.pc = "unlink"
    /\ rebuild.listed = {}
    /\ IF Entries(index_dir) # {}
       THEN /\ rebuild' = [rebuild EXCEPT !.pc = "failed"]
            /\ UNCHANGED index_dir
       ELSE /\ rebuild' = [rebuild EXCEPT !.pc = "embed"]
            /\ index_dir' = [index_dir EXCEPT !.exists = FALSE]
    /\ UNCHANGED <<reader, other_vars>>

\* FAISS.from_documents: the embedding call
RebuildEmbed ==
    /\ rebuild.pc = "embed"
    /\ rebuild' = [rebuild EXCEPT !.pc = "mkdir"]
    /\ UNCHANGED <<index_dir, reader, other_vars>>

\* store.save_local: the directory,
RebuildMkdir ==
    /\ rebuild.pc = "mkdir"
    /\ index_dir' = Mkdir(index_dir)
    /\ rebuild' = [rebuild EXCEPT !.pc = "write_faiss"]
    /\ UNCHANGED <<reader, other_vars>>

\* then index.faiss,
RebuildWriteFaiss ==
    /\ rebuild.pc = "write_faiss"
    /\ index_dir.exists
    /\ index_dir' = [index_dir EXCEPT !.faiss = FileOf(rebuild.chunks)]
    /\ rebuild' = [rebuild EXCEPT !.pc = "write_pkl"]
    /\ UNCHANGED <<reader, other_vars>>

\* then index.pkl
RebuildWritePkl ==
    /\ rebuild.pc = "write_pkl"
    /\ index_dir.exists
    /\ index_dir' = [index_dir EXCEPT !.pkl = FileOf(rebuild.chunks)]
    /\ rebuild' = [rebuild EXCEPT !.pc = "done"]
    /\ UNCHANGED <<reader, other_vars>>

\* the handler returns, with the store or with "Error: ...", and may be
\* called again
RebuildReturn ==
    /\ rebuild.pc \in {"done", "failed"}
    /\ rebuild' = Caller("idle")
    /\ UNCHANGED <<index_dir, reader, other_vars>>

\* --- load_vector_store() ---

\* if not index_file.exists(): build from the default directory, else load
LoadExists ==
    /\ reader.pc = "idle"
    /\ IF index_dir.faiss.present
       THEN reader' = Caller("read_faiss")
       ELSE \E default_dir \in SourceDirs :
               reader' = [Caller("embed") EXCEPT
                             !.chunks = chunk_documents(load_txt_documents(default_dir))]
    /\ UNCHANGED <<index_dir, rebuild, other_vars>>

\* FAISS.load_local reads index.faiss,
LoadReadFaiss ==
    /\ reader.pc = "read_faiss"
    /\ reader' = IF index_dir.faiss.present
                 THEN [reader EXCEPT !.pc = "read_pkl", !.faiss = index_dir.faiss]
                 ELSE [reader EXCEPT !.pc = "failed"]
    /\ UNCHANGED <<index_dir, rebuild, other_vars>>

\* then index.pkl
LoadReadPkl ==
    /\ reader.pc = "read_pkl"
    /\ reader' = IF index_dir.pkl.present
                 THEN [reader EXCEPT !.pc = "done", !.pkl = index_dir.pkl]
                 ELSE [reader EXCEPT !.pc = "failed"]
    /\ UNCHANGED <<index_dir, rebuild, other_vars>>

\* get_or_create_vector_store(): force_recreate is False, nothing is
\* removed; the embedding call,
LoadEmbed ==
    /\ reader.pc = "embed"
    /\ reader' = [reader EXCEPT !.pc = "mkdir"]
    /\ UNCHANGED <<index_dir, rebuild, other_vars>>

\* store.save_local: the directory,
LoadMkdir ==
    /\ reader.pc = "mkdir"
    /\ index_dir' = Mkdir(index_dir)
    /\ reader' = [reader EXCEPT !.pc = "write_faiss"]
    /\ UNCHANGED <<rebuild, other_vars>>

\* then index.faiss, which fails in a directory removed since,
LoadWriteFaiss ==
    /\ reader.pc = "write_faiss"
    /\ IF index_dir.exists
       THEN /\ index_dir' = [index_dir EXCEPT !.faiss = FileOf(reader.chunks)]
            /\ reader' = [reader EXCEPT !.pc = "write_pkl"]
       ELSE /\ reader' = [reader EXCEPT !.pc = "failed"]
            /\ UNCHANGED index_dir
    /\ UNCHANGED <<rebuild, other_vars>>

\* then index.pkl; the store returned is the one built in memory
LoadWritePkl ==
    /\ reader.pc = "write_pkl"
    /\ IF index_dir.exists
       THEN /\ index_dir' = [index_dir EXCEPT !.pkl = FileOf(reader.chunks)]
            /\ reader' = [reader EXCEPT !.pc = "done",
                                        !.faiss = FileOf(reader.chunks),
                                        !.pkl = FileOf(reader.chunks)]
       ELSE /\ reader' = [reader EXCEPT !.pc = "failed"]
            /\ UNCHANGED index_dir
    /\ UNCHANGED <<rebuild, other_vars>>

\* chat() returns, with the answer or with "Error: ...", and may be called
\* again
LoadReturn ==
    /\ reader.pc \in {"done", "failed"}
    /\ reader' = Caller("idle")
    /\ UNCHANGED <<index_dir, rebuild, other_vars>>

NextConc ==
    \/ RebuildChunk
    \/ RebuildExists
    \/ RebuildScandir
    \/ RebuildUnlink
    \/ RebuildRmdir
    \/ RebuildEmbed
    \/ RebuildMkdir
    \/ RebuildWriteFaiss
    \/ RebuildWritePkl
    \/ RebuildReturn
    \/ LoadExists
    \/ LoadReadFaiss
    \/ LoadReadPkl
    \/ LoadEmbed
    \/ LoadMkdir
    \/ LoadWriteFaiss
    \/ LoadWritePkl
    \/ LoadReturn

SpecConc == InitConc /\ [][NextConc]_vars

\* the reader holds a store whose vectors and documents are of one build
LoadedComplete ==
    /\ reader.faiss.present
    /\ reader.pkl = reader.faiss

\* C11: a load_vector_store that runs while another caller rebuilds with
\* force_recreate never fails: whenever it ends, it ends with a complete
\* store, loaded from disk or built on finding index.faiss missing.
ReaderTolerates ==
    /\ reader.pc # "failed"
    /\ reader.pc = "done" => LoadedComplete

=============================================================================
